---- MODULE Spec2Model ----
(***************************************************************************)
(* dotenv-linter, src/checks/incorrect_delimiter.rs:                       *)
(* IncorrectDelimiterChecker, the check that flags keys of KEY=VALUE lines *)
(* containing characters other than alphanumerics and underscore after the *)
(* key's leading characters.                                               *)
(*                                                                         *)
(* Strings are sequences of one-character strings.  A line is scanned one  *)
(* character at a time, handed to the checker (run), and followed by the   *)
(* next line; one checker instance is reused for all lines.                *)
(***************************************************************************)
EXTENDS Naturals, Sequences, FiniteSets

\* ------------------------------------------------------------------ bounds
\* longest raw_string of a line checked on its own
MaxLen == 5
\* longest raw_string of a line of a file checked line after line
MaxFileLen == 3
\* number of lines of that file (LineEntry.number ranges over 1..MaxLines)
MaxLines == 2

\* ------------------------------------------------------------- characters
\* The characters lines are made of: one ASCII letter, one digit, the
\* underscore, two punctuation characters that also spell the placeholder
\* of the message template, one more punctuation character, one white
\* space, the delimiter and one alphanumeric character outside ASCII
\* (U+00E9, e with acute accent).
Alphabet == {"F", "1", "_", "-", " ", "=", "U+00E9", "{", "}"}

\* char::is_alphabetic / char::is_numeric over Alphabet and the template
AsciiLetters ==
    {"T", "h", "e", "k", "y", "a", "s", "i", "n", "c", "o", "r", "t", "d",
     "l", "m", "F"}

Alphabetic == AsciiLetters \cup {"U+00E9"}

Numeric == {"1"}

White_Space == {" "}

is_alphanumeric(c) == c \in Alphabetic \cup Numeric

is_whitespace(c) == c \in White_Space

None == [some |-> FALSE]

Some(v) == [some |-> TRUE, value |-> v]

\* ---------------------------------------------------------------- strings
\* str::find(char): index of the first occurrence, 0 when there is none
RECURSIVE find_from(_, _, _)
find_from(s, c, i) ==
    IF i > Len(s) THEN 0
    ELSE IF s[i] = c THEN i
    ELSE find_from(s, c, i + 1)

find(s, c) == find_from(s, c, 1)

\* str::trim_start / str::trim_end / str::trim
RECURSIVE trim_start(_)
trim_start(s) ==
    IF s # <<>> /\ is_whitespace(Head(s)) THEN trim_start(Tail(s)) ELSE s

RECURSIVE trim_end(_)
trim_end(s) ==
    IF s # <<>> /\ is_whitespace(s[Len(s)])
    THEN trim_end(SubSeq(s, 1, Len(s) - 1))
    ELSE s

trim(s) == trim_end(trim_start(s))

\* str::starts_with
starts_with(s, p) == Len(s) >= Len(p) /\ SubSeq(s, 1, Len(p)) = p

\* str::replace(from, to): every non-overlapping match of from in s, found
\* scanning left to right, is replaced by to; to is copied, never rescanned
RECURSIVE replace(_, _, _)
replace(s, from, to) ==
    IF s = <<>> THEN <<>>
    ELSE IF starts_with(s, from)
    THEN to \o replace(SubSeq(s, Len(from) + 1, Len(s)), from, to)
    ELSE <<Head(s)>> \o replace(Tail(s), from, to)

\* ------------------------------------------------------------- line model
\* LineEntry::get_key: the text before the first '=', when it is not empty
get_key(line) ==
    LET i == find(line.raw_string, "=")
    IN  IF i > 1 THEN Some(SubSeq(line.raw_string, 1, i - 1)) ELSE None

\* remove_invalid_leading_chars: drops the maximal prefix of characters
\* that are neither alphanumeric nor underscore
RECURSIVE remove_invalid_leading_chars(_)
remove_invalid_leading_chars(s) ==
    IF s # <<>> /\ ~(is_alphanumeric(Head(s)) \/ Head(s) = "_")
    THEN remove_invalid_leading_chars(Tail(s))
    ELSE s

\* Warning::new
Warning_new(line, check_name, message) ==
    [line |-> line, check_name |-> check_name, message |-> message]

\* ---------------------------------------------------------------- checker
\* Default::default
Default ==
    [name |-> "IncorrectDelimiter",
     template |-> <<"T", "h", "e", " ", "{", "}", " ", "k", "e", "y", " ",
                    "h", "a", "s", " ", "i", "n", "c", "o", "r", "r", "e",
                    "c", "t", " ", "d", "e", "l", "i", "m", "i", "t", "e",
                    "r">>]

\* IncorrectDelimiterChecker::message
message(self, key) == replace(self.template, <<"{", "}">>, key)

\* Check::name
name(self) == self.name

\* mutant: .all( in place of .any(
all_invalid(s) == \A i \in 1..Len(s) : ~is_alphanumeric(s[i]) /\ s[i] # "_"

\* mutant: is_alphabetic in place of is_alphanumeric
any_not_alphabetic(s) ==
    \E i \in 1..Len(s) : ~(s[i] \in Alphabetic) /\ s[i] # "_"

\* .chars().any(|c| !c.is_alphanumeric() && c != '_')
any_invalid(s) == \E i \in 1..Len(s) : ~is_alphanumeric(s[i]) /\ s[i] # "_"

\* mutant: the key is scanned without remove_invalid_leading_chars
run_no_clean(self, line) ==
    LET key == get_key(line)
    IN  IF ~key.some THEN [self |-> self, ret |-> None]
        ELSE IF any_invalid(trim(key.value))
             THEN [self |-> self,
                   ret |-> Some(Warning_new(line, name(self),
                                            message(self, key.value)))]
             ELSE [self |-> self, ret |-> None]

\* mutant: the cleaned key is scanned without trim
run_no_trim(self, line) ==
    LET key == get_key(line)
    IN  IF ~key.some THEN [self |-> self, ret |-> None]
        ELSE LET cleaned_key == remove_invalid_leading_chars(key.value)
             IN  IF any_invalid(cleaned_key)
                 THEN [self |-> self,
                       ret |-> Some(Warning_new(line, name(self),
                                                message(self, key.value)))]
                 ELSE [self |-> self, ret |-> None]

\* mutant: a line without a key is checked as if it were all key
run_unwrap_or(self, line) ==
    LET got == get_key(line)
        key == IF got.some THEN got ELSE Some(line.raw_string)
        cleaned_key == remove_invalid_leading_chars(key.value)
    IN  IF any_invalid(trim(cleaned_key))
        THEN [self |-> self,
              ret |-> Some(Warning_new(line, name(self),
                                       message(self, key.value)))]
        ELSE [self |-> self, ret |-> None]

\* mutant: the message is built from the cleaned and trimmed key
run_cleaned_message(self, line) ==
    LET key == get_key(line)
    IN  IF ~key.some THEN [self |-> self, ret |-> None]
        ELSE LET cleaned_key == remove_invalid_leading_chars(key.value)
             IN  IF any_invalid(trim(cleaned_key))
                 THEN [self |-> self,
                       ret |-> Some(Warning_new(line, name(self),
                                       message(self, trim(cleaned_key))))]
                 ELSE [self |-> self, ret |-> None]

\* mutant: invalid characters are stripped at the end of the key too
run_strip_both(self, line) ==
    LET key == get_key(line)
    IN  IF ~key.some THEN [self |-> self, ret |-> None]
        ELSE LET strip_end(s) ==
                     SubSeq(s, 1, Len(s) - IF any_invalid(<<s[Len(s)]>>)
                                           THEN 1 ELSE 0)
                 cleaned_key == remove_invalid_leading_chars(key.value)
                 stripped == IF cleaned_key = <<>> THEN cleaned_key
                             ELSE strip_end(cleaned_key)
             IN  IF any_invalid(trim(stripped))
                 THEN [self |-> self,
                       ret |-> Some(Warning_new(line, name(self),
                                                message(self, key.value)))]
                 ELSE [self |-> self, ret |-> None]

\* mutant: run keeps the formatted message as the template of later calls
run_keeps_message(self, line) ==
    LET key == get_key(line)
    IN  IF ~key.some THEN [self |-> self, ret |-> None]
        ELSE LET cleaned_key == remove_invalid_leading_chars(key.value)
             IN  IF any_invalid(trim(cleaned_key))
                 THEN [self |-> [self EXCEPT
                                   !.template = message(self, key.value)],
                       ret |-> Some(Warning_new(line, name(self),
                                                message(self, key.value)))]
                 ELSE [self |-> self, ret |-> None]

\* Check::run(&mut self, line): the checker after the call and the value
\* returned; no field of self is assigned
run(self, line) ==
    LET key == get_key(line)
    IN  IF ~key.some THEN [self |-> self, ret |-> None]
        ELSE LET cleaned_key == remove_invalid_leading_chars(key.value)
             IN  IF any_invalid(trim(cleaned_key))
                 THEN [self |-> self,
                       ret |-> Some(Warning_new(line, name(self),
                                                message(self, key.value)))]
                 ELSE [self |-> self, ret |-> None]

\* ------------------------------------------------------------------ state
VARIABLES
    checker,    \* the IncorrectDelimiterChecker instance
    line,       \* the LineEntry being scanned or checked
    call,       \* "run" once the line was handed to checker.run
    result,     \* what the last run on this line returned
    check_name  \* what the last call of checker.name() returned

vars == <<checker, line, call, result, check_name>>

Init ==
    /\ checker = Default
    /\ line = [number |-> 1, raw_string |-> <<>>]
    /\ call = "none"
    /\ result = None
    /\ check_name = None

\* the file scanner reads one more character of the current line
Scan(c, limit) ==
    /\ call = "none"
    /\ Len(line.raw_string) < limit
    /\ line' = [line EXCEPT !.raw_string = Append(@, c)]
    /\ UNCHANGED <<checker, call, result, check_name>>

\* the runner hands the line to the check (again, when it already did)
Run ==
    /\ checker' = run(checker, line).self
    /\ result' = run(checker, line).ret
    /\ call' = "run"
    /\ UNCHANGED <<line, check_name>>

\* the runner asks the check for its name
Name ==
    /\ check_name' = Some(name(checker))
    /\ UNCHANGED <<checker, line, call, result>>

\* the runner moves on to the next line of the file
NextLine ==
    /\ call = "run"
    /\ line.number < MaxLines
    /\ line' = [number |-> line.number + 1, raw_string |-> <<>>]
    /\ call' = "none"
    /\ result' = None
    /\ UNCHANGED <<checker, check_name>>

\* one line, checked on its own
Next ==
    \/ \E c \in Alphabet : Scan(c, MaxLen)
    \/ Run

Spec == Init /\ [][Next]_vars

\* one checker reused for the lines of a file
NextFile ==
    \/ \E c \in Alphabet : Scan(c, MaxFileLen)
    \/ Run
    \/ Name
    \/ NextLine

SpecFile == Init /\ [][NextFile]_vars

\* ----------------------------------------------------------------- claims
Raw == line.raw_string

\* n is the length of the key of the line: the '=' at n + 1 is the first
IsKeyLen(n) ==
    /\ n \in 1..(Len(Raw) - 1)
    /\ Raw[n + 1] = "="
    /\ \A i \in 1..n : Raw[i] # "="

KeyLens == {n \in 1..(Len(Raw) - 1) : IsKeyLen(n)}

Ran == call = "run"

\* a letter, a digit or the underscore
ValidChar(c) == c \in Alphabetic \cup Numeric \cup {"_"}

\* an ASCII letter, a digit or the underscore
AsciiChar(c) == c \in AsciiLetters \cup Numeric \cup {"_"}

Blank(c) == c \in White_Space

ExpectedMessage(key) ==
    <<"T", "h", "e", " ">> \o key \o
    <<" ", "k", "e", "y", " ", "h", "a", "s", " ", "i", "n", "c", "o", "r",
      "r", "e", "c", "t", " ", "d", "e", "l", "i", "m", "i", "t", "e", "r">>

ExpectedWarning(n) ==
    [some |-> TRUE,
     value |-> [line |-> line, check_name |-> "IncorrectDelimiter",
                message |-> ExpectedMessage(SubSeq(Raw, 1, n))]]

\* C1 as stated: a space or punctuation character of the key that has a
\* character of the key before it and one after it makes run return the
\* warning with the line, the rule name and the message with the full key.
C1_AnyInternalInvalidFires ==
    Ran =>
        \A n \in KeyLens :
            (\E i \in 2..(n - 1) : ~ValidChar(Raw[i]))
                => result = ExpectedWarning(n)

\* C1 amended: the same, for an internal space or punctuation character
\* that has a letter, digit or underscore somewhere before it and that is
\* not white space or has a character other than white space after it.
C1_InternalInvalidFires ==
    Ran =>
        \A n \in KeyLens :
            (\E i \in 2..(n - 1) :
                /\ ~ValidChar(Raw[i])
                /\ \E j \in 1..(i - 1) : ValidChar(Raw[j])
                /\ \E k \in i..n : ~Blank(Raw[k]))
                => result = ExpectedWarning(n)

\* C1 witness: run was called on a key made of an invalid leading
\* character, a valid one, an internal invalid one and a fourth character.
C1_Witness ==
    /\ Ran
    /\ IsKeyLen(4)
    /\ ~ValidChar(Raw[1]) /\ ValidChar(Raw[2])
    /\ ~ValidChar(Raw[3]) /\ ~Blank(Raw[3])
    /\ result.some

\* C2: a key made only of ASCII letters, digits and underscores makes run
\* return None, wherever its digits are.
C2_CleanKeyNone ==
    Ran =>
        \A n \in KeyLens :
            (\A i \in 1..n : AsciiChar(Raw[i])) => result = None

\* C2 witness: run was called on a key of letters, digits and underscores
\* that starts with a digit and has another digit later.
C2_Witness ==
    /\ Ran
    /\ \E n \in KeyLens :
        /\ n >= 3
        /\ \A i \in 1..n : AsciiChar(Raw[i])
        /\ Raw[1] \in Numeric
        /\ \E i \in 2..n : Raw[i] \in Numeric
        /\ \E i \in 2..n : Raw[i] \notin Numeric

\* C3: a key whose invalid characters all stand in one leading run, the
\* rest being letters, digits and underscores or empty, makes run return
\* None.
C3_LeadingInvalidNone ==
    Ran =>
        \A n \in KeyLens :
            (\E p \in 1..n :
                /\ \A i \in 1..p : ~ValidChar(Raw[i])
                /\ \A i \in (p + 1)..n : ValidChar(Raw[i]))
                => result = None

\* C3 witness: run was called on a key of two invalid characters followed
\* by two valid ones.
C3_Witness ==
    /\ Ran
    /\ IsKeyLen(4)
    /\ ~ValidChar(Raw[1]) /\ ~ValidChar(Raw[2])
    /\ ~Blank(Raw[1]) /\ ~Blank(Raw[2])
    /\ ValidChar(Raw[3]) /\ ValidChar(Raw[4])

\* C4: a line without a key (empty, without any '=', or starting with
\* '=') makes run return None.
C4_NoKeyNone ==
    Ran =>
        ((Raw = <<>> \/ (\A i \in 1..Len(Raw) : Raw[i] # "=") \/ Raw[1] = "=")
            => result = None)

\* C4 witness: run was called on a line without '=' that has an invalid
\* character between two valid ones.
C4_Witness ==
    /\ Ran
    /\ \A i \in 1..Len(Raw) : Raw[i] # "="
    /\ \E i \in 2..(Len(Raw) - 1) :
        /\ ~ValidChar(Raw[i]) /\ ~Blank(Raw[i])
        /\ ValidChar(Raw[i - 1]) /\ ValidChar(Raw[i + 1])

\* C5: a key that is a non-empty body of letters, digits and underscores
\* with white space only before and/or after the body makes run return
\* None.
C5_BoundaryWhitespaceNone ==
    Ran =>
        \A n \in KeyLens :
            (\E a \in 1..n : \E b \in a..n :
                /\ a > 1 \/ b < n
                /\ \A i \in 1..(a - 1) : Blank(Raw[i])
                /\ \A i \in a..b : ValidChar(Raw[i])
                /\ \A i \in (b + 1)..n : Blank(Raw[i]))
                => result = None

\* C5 witness: run was called on a key with white space before its body
\* and two white space characters after it.
C5_Witness ==
    /\ Ran
    /\ IsKeyLen(4)
    /\ Blank(Raw[1]) /\ ValidChar(Raw[2]) /\ Blank(Raw[3]) /\ Blank(Raw[4])

\* C6: the message of every finding is the template with the placeholder
\* replaced by the key exactly as it stands in the line.
C6_MessageHasOriginalKey ==
    (Ran /\ result.some) =>
        \E n \in KeyLens :
            result.value.message = ExpectedMessage(SubSeq(Raw, 1, n))

\* C6 witness: a finding for a key that starts with white space and
\* contains the placeholder text.
C6_Witness ==
    /\ Ran
    /\ result.some
    /\ \E n \in KeyLens :
        /\ Blank(Raw[1])
        /\ \E i \in 1..(n - 1) : Raw[i] = "{" /\ Raw[i + 1] = "}"

\* C7 as stated: a character other than an ASCII letter, a digit or an
\* underscore strictly between other characters of the key makes run
\* return a finding.
C7_AnyInternalNonAsciiFires ==
    Ran =>
        \A n \in KeyLens :
            (\E i \in 2..(n - 1) : ~AsciiChar(Raw[i])) => result.some

\* C7 amended: a character that is neither alphanumeric (ASCII or not) nor
\* underscore, strictly between other characters of the key, with a
\* letter, digit or underscore somewhere before it, and that is not white
\* space or has a character other than white space after it, makes run
\* return a finding.
C7_InternalNonAlphanumericFires ==
    Ran =>
        \A n \in KeyLens :
            (\E i \in 2..(n - 1) :
                /\ ~ValidChar(Raw[i])
                /\ \E j \in 1..(i - 1) : ValidChar(Raw[j])
                /\ \E k \in i..n : ~Blank(Raw[k]))
                => result.some

\* C7 witness: a finding for a key with white space between two valid
\* characters.
C7_Witness ==
    /\ Ran
    /\ result.some
    /\ \E n \in KeyLens :
        \E i \in 2..(n - 1) :
            Blank(Raw[i]) /\ ValidChar(Raw[i - 1]) /\ ValidChar(Raw[i + 1])

\* C8: the checker is the one Default built after every sequence of calls,
\* every run returns what a fresh checker returns for the line, and name()
\* returns the rule name.
C8_NoStateBetweenCalls ==
    /\ checker = Default
    /\ Ran => result = run(Default, line).ret
    /\ check_name.some => check_name.value = "IncorrectDelimiter"

\* C8 witness: run returned a finding for the second line of the file,
\* after the run on the first line, and name() was called.
C8_Witness ==
    /\ Ran
    /\ line.number = 2
    /\ result.some
    /\ check_name.some

\* the length of the maximal prefix of the key of invalid characters
LeadingRun(n) ==
    CHOOSE p \in 0..n :
        /\ \A i \in 1..p : ~ValidChar(Raw[i])
        /\ p = n \/ ValidChar(Raw[p + 1])

\* C9: run returns a finding exactly when the line has a key and, past the
\* maximal leading run of invalid characters and without the white space
\* around the rest, an invalid character is left.
C9_AgreesWithReference ==
    Ran =>
        (result.some <=>
            \E n \in KeyLens :
                \E i \in (LeadingRun(n) + 1)..n :
                    /\ ~ValidChar(Raw[i])
                    /\ \E k \in i..n : ~Blank(Raw[k]))

\* C9 witness: run returned None for a key whose leading run of invalid
\* characters is followed by a valid character and trailing white space.
C9_Witness ==
    /\ Ran
    /\ ~result.some
    /\ IsKeyLen(3)
    /\ ~ValidChar(Raw[1]) /\ ValidChar(Raw[2]) /\ Blank(Raw[3])

\* C10 as stated: a key made of a non-empty body of letters, digits and
\* underscores and one trailing invalid character makes run return a
\* finding.
C10_TrailingInvalidFires ==
    Ran =>
        \A n \in KeyLens :
            (/\ n >= 2
             /\ \A i \in 1..(n - 1) : ValidChar(Raw[i])
             /\ ~ValidChar(Raw[n])) => result.some

\* C10 amended: the same, for a trailing invalid character that is not
\* white space.
C10_TrailingNonBlankInvalidFires ==
    Ran =>
        \A n \in KeyLens :
            (/\ n >= 2
             /\ \A i \in 1..(n - 1) : ValidChar(Raw[i])
             /\ ~ValidChar(Raw[n])
             /\ ~Blank(Raw[n])) => result.some

\* C10 witness: a finding for a key of two valid characters and a trailing
\* punctuation character.
C10_Witness ==
    /\ Ran
    /\ result.some
    /\ IsKeyLen(3)
    /\ ValidChar(Raw[1]) /\ ValidChar(Raw[2])
    /\ ~ValidChar(Raw[3]) /\ ~Blank(Raw[3])
====
